---- MODULE Spec2Model ----
(***************************************************************************)
(* Deployment orchestrator of nkp-claude-code-deployment/ui/app.py:        *)
(* the /api/start handler, the run_deployment thread, the shared           *)
(* log_queue and the /stream subscribers, as one state machine.            *)
(***************************************************************************)
EXTENDS Integers, Sequences, FiniteSets, TLC

(* ---------------------------------------------------------------- bounds *)
\* output lines one child process prints
MaxLines == 1

\* lines of output per child process where the order of the lines is checked
MaxOutput == 2

\* words of a line handed to detect_phase on its own
MaxWords == 2

\* calls of detect_phase with the same arguments
MaxCalls == 2

\* the threads serving POST /api/start; run thread h is the one handler h starts
Handlers == {1, 2}
\* the open /stream connections
Subs == {1, 2}

(* ------------------------------------------------------- program tables *)
Modes == {"automated", "phased"}

PHASE_SETS(mode) ==
    IF mode = "automated"
    THEN <<"Validate & prepare", "Deploy NKP", "Verify deployment">>
    ELSE IF mode = "phased"
    THEN <<"Validate prerequisites", "Prepare nodes", "Deploy NKP", "Verify deployment">>
    ELSE <<>>

\* label -> script run by /bin/bash; "" is a label the catalog does not hold
PHASE_COMMANDS(phase) ==
    CASE phase = "Deploy NKP" -> "deploy-nkp.sh"
      [] phase = "Verify deployment" -> "verify-deployment.sh"
      [] phase = "Validate prerequisites" -> "parallel-validate.sh"
      [] phase = "Prepare nodes" -> "parallel-prepare-nodes.sh"
      [] OTHER -> ""

\* ordered keyword rules of the phase classifier
PHASE_KEYWORDS ==
    << <<"prepar", "Prepare nodes">>, <<"deploy", "Deploy NKP">> >>

\* str.lower() on the words an output line is made of
Lower(w) ==
    CASE w = "Verify" -> "verify"
      [] w = "VERIFY" -> "verify"
      [] w = "Deploy" -> "deploy"
      [] w = "Preparing" -> "preparing"
      [] w = "Verifying" -> "verifying"
      [] OTHER -> w

\* `keyword in lower_line`: the keyword is a substring of a word of the line
Contains(word, keyword) ==
    \/ word = keyword
    \/ keyword = "prepar" /\ word = "preparing"
    \/ keyword = "verify" /\ word = "verifying"

\* a scan in which the last rule that matches wins
RECURSIVE FirstRule_Last(_, _)
FirstRule_Last(lower_line, i) ==
    IF i > Len(PHASE_KEYWORDS) THEN ""
    ELSE LET later == FirstRule_Last(lower_line, i + 1)
         IN  IF later # "" THEN later
             ELSE IF \E k \in 1..Len(lower_line) :
                        Contains(lower_line[k], PHASE_KEYWORDS[i][1])
                  THEN PHASE_KEYWORDS[i][2]
                  ELSE ""

\* the loop of lines 666-668 from rule i on: the first rule whose keyword is
\* in the line gives the label
RECURSIVE FirstRule(_, _)
FirstRule(lower_line, i) ==
    IF i > Len(PHASE_KEYWORDS) THEN ""
    ELSE IF \E k \in 1..Len(lower_line) : Contains(lower_line[k], PHASE_KEYWORDS[i][1])
         THEN PHASE_KEYWORDS[i][2]
         ELSE FirstRule(lower_line, i + 1)

\* a classifier without the fallback of lines 669-670
detect_phase_NoFallback(line, mode) ==
    LET lower_line == [k \in 1..Len(line) |-> Lower(line[k])]
    IN  FirstRule(lower_line, 1)

\* a classifier whose fallback does not look at the mode
detect_phase_AnyMode(line, mode) ==
    LET lower_line == [k \in 1..Len(line) |-> Lower(line[k])]
        hit == FirstRule(lower_line, 1)
    IN  IF hit # "" THEN hit
        ELSE IF \E k \in 1..Len(lower_line) : Contains(lower_line[k], "verify")
             THEN "Verify deployment"
             ELSE ""

\* detect_phase; "" stands for None
detect_phase(line, mode) ==
    LET lower_line == [k \in 1..Len(line) |-> Lower(line[k])]
        hit == FirstRule(lower_line, 1)
    IN  IF hit # "" THEN hit
        ELSE IF mode = "automated"
                /\ \E k \in 1..Len(lower_line) : Contains(lower_line[k], "verify")
             THEN "Verify deployment"
             ELSE ""

RECURSIVE MapPhases(_)
MapPhases(phases) ==
    IF phases = <<>> THEN <<>>
    ELSE LET mapped == PHASE_COMMANDS(Head(phases))
         IN  IF mapped = ""
             THEN MapPhases(Tail(phases))
             ELSE <<[label |-> Head(phases), command |-> mapped]>> \o MapPhases(Tail(phases))

\* a resolver that maps the phases whatever the mode
build_command_sequence_Phases(mode, phases) == MapPhases(phases)

\* a resolver that falls back to the composite step when no phase maps
build_command_sequence_Fallback(mode, phases) ==
    IF mode = "automated" \/ MapPhases(phases) = <<>>
    THEN <<[label |-> "Parallel deploy + verify", command |-> "parallel-deploy-and-verify.sh"]>>
    ELSE MapPhases(phases)

build_command_sequence(mode, phases) ==
    IF mode = "automated"
    THEN <<[label |-> "Parallel deploy + verify", command |-> "parallel-deploy-and-verify.sh"]>>
    ELSE MapPhases(phases)

(* -------------------------------------------------- configuration tables *)
\* A text (a key, a value, a line of a file) is the sequence of its pieces:
\* <<"export ", "STORAGE_CONTAINER">> is the text "export STORAGE_CONTAINER".
\* A dict is a function from key texts to value texts.  The tables below keep
\* the entries of the source for three fields: a required one, the sensitive
\* one, and one that is neither.
CLUSTER_NAME == <<"CLUSTER_NAME">>
PRISM_CENTRAL_PASSWORD == <<"PRISM_CENTRAL_PASSWORD">>
STORAGE_CONTAINER == <<"STORAGE_CONTAINER">>

SENSITIVE_FIELDS == {PRISM_CENTRAL_PASSWORD}

DEFAULT_CONFIG ==
    (CLUSTER_NAME :> <<"nkp-mgmt">>) @@ (STORAGE_CONTAINER :> <<>>)
    @@ (PRISM_CENTRAL_PASSWORD :> <<>>)

REQUIRED_FIELDS == {CLUSTER_NAME}

defaults == (PRISM_CENTRAL_PASSWORD :> <<>>) @@ (STORAGE_CONTAINER :> <<>>)

\* the keys format_env_lines writes, in the order of section_headers
SectionKeys == <<CLUSTER_NAME, PRISM_CENTRAL_PASSWORD, STORAGE_CONTAINER>>

\* {**a, **b}
Merge(a, b) ==
    [k \in DOMAIN a \cup DOMAIN b |-> IF k \in DOMAIN b THEN b[k] ELSE a[k]]

\* str.strip(chars) on a text: the pieces in chars are dropped at both ends
RECURSIVE LStrip(_, _)
LStrip(text, chars) ==
    IF text # <<>> /\ Head(text) \in chars THEN LStrip(Tail(text), chars) ELSE text

RECURSIVE RStrip(_, _)
RStrip(text, chars) ==
    IF text # <<>> /\ text[Len(text)] \in chars
    THEN RStrip(SubSeq(text, 1, Len(text) - 1), chars)
    ELSE text

StripChars(text, chars) == RStrip(LStrip(text, chars), chars)

Whitespace == {" "}

\* shlex.quote on a value made of safe characters: '' for the empty string,
\* the value itself otherwise
ShlexQuote(value) == IF value = <<>> THEN <<"''">> ELSE value

\* lines 594-600 of format_env_lines for the keys from position i on
RECURSIVE EnvLinesFrom(_, _, _)
EnvLinesFrom(config, skip_keys, i) ==
    IF i > Len(SectionKeys) THEN <<>>
    ELSE LET key == SectionKeys[i]
             value == IF key \in DOMAIN config THEN config[key] ELSE <<>>
         IN  IF key \in skip_keys
             THEN EnvLinesFrom(config, skip_keys, i + 1)
             ELSE << <<"export ">> \o key \o <<"=">> \o ShlexQuote(value) >>
                  \o EnvLinesFrom(config, skip_keys, i + 1)

format_env_lines(config, skip_keys) ==
    << <<"#", " ", "Generated by NKP Bastion Dashboard">> >>
    \o EnvLinesFrom(config, skip_keys, 1)

\* persist_config: the two files it writes
persist_config(config) ==
    LET redacted_config ==
            [key \in DOMAIN config |->
                IF key \in SENSITIVE_FIELDS
                THEN IF config[key] # <<>> THEN <<"<redacted>">> ELSE <<>>
                ELSE config[key]]
    IN  [env_file |-> format_env_lines(config, SENSITIVE_FIELDS),
         deployment_file |-> redacted_config]

\* position of the first "=" of a line, 0 when it has none
RECURSIVE IndexOfEq(_, _)
IndexOfEq(line, i) ==
    IF i > Len(line) THEN 0
    ELSE IF line[i] = "=" THEN i ELSE IndexOfEq(line, i + 1)

\* lines 777-783: the env-format branch of api_upload_config
RECURSIVE ParseEnvLines(_, _)
ParseEnvLines(lines, parsed) ==
    IF lines = <<>> THEN parsed
    ELSE LET line == Head(lines)
             stripped == StripChars(line, Whitespace)
             eq == IndexOfEq(line, 1)
         IN  IF stripped = <<>> \/ Head(stripped) = "#" \/ eq = 0
             THEN ParseEnvLines(Tail(lines), parsed)
             ELSE LET key == StripChars(SubSeq(line, 1, eq - 1), Whitespace)
                      value == StripChars(
                                   StripChars(SubSeq(line, eq + 1, Len(line)), Whitespace),
                                   {"\""})
                  IN  ParseEnvLines(Tail(lines), Merge(parsed, key :> value))

\* validate_config: the required fields that are missing
validate_config(config) ==
    {field \in REQUIRED_FIELDS :
        StripChars(IF field \in DOMAIN config THEN config[field] ELSE <<>>, Whitespace) = <<>>}

(* --------------------------------------------------------------- inputs *)
\* output lines of a child process, as the words they hold
Lines == {<<"ok">>, <<"Verify", "Deploy">>}

\* output lines of the child processes of one client's run: those of Lines
\* and one that holds "verify" and no keyword of a rule
RunLines == Lines \cup {<<"VERIFY">>}

\* output lines of a child that prints several: one that ends in white
\* space, one that holds keywords of rules, one that holds only "verify"
OutputLines == {<<"ok", " ">>, <<"Verify", "Deploy">>, <<"VERIFY">>}

\* exit codes of a child process
ExitCodes == {0, 1, 137}

\* the exit code recorded for a child process that has not exited
Alive == -1

\* prismCentralPassword of a request body; "" is a body without it
Secrets == {"", "pw", "pw2"}

\* PRISM_CENTRAL_PASSWORD of the server's environment; "" is a server without it
EnvSecrets == {"", "envpw"}

\* bodies of POST /api/start sent by concurrent clients
Requests ==
    [mode : Modes,
     hasPhases : {TRUE},
     phases : {<<"Deploy NKP">>},
     password : {"pw"}]

\* bodies of POST /api/start that differ in the password only
SecretRequests ==
    [mode : {"automated"},
     hasPhases : {FALSE},
     phases : {<<>>},
     password : Secrets]

\* bodies of POST /api/start of a single client: a mode outside PHASE_SETS,
\* no "phases" key (hasPhases false: the default of line 830 is used), phase
\* lists with unknown labels, no label, one and two steps
RunRequests ==
    [mode : Modes \cup {"custom"},
     hasPhases : {TRUE},
     phases : {<<>>, <<"Bogus">>, <<"Deploy NKP">>, <<"Prepare nodes", "Deploy NKP">>,
               <<"Bogus", "Verify deployment">>},
     password : {"pw"}]
    \cup
    [mode : Modes \cup {"custom"}, hasPhases : {FALSE}, phases : {<<>>}, password : {"pw"}]

\* a JSON value of the body of POST /api/verify: a string or null
JsonString(text) == [kind |-> "string", text |-> text]

JsonNull == [kind |-> "null", text |-> <<>>]

\* values of a field of the body of POST /api/verify: empty, blank, padded, null
VerifyValues ==
    {JsonString(<<>>), JsonString(<<" ">>), JsonString(<<" ", "v", " ">>), JsonNull}

VerifyKeys == {"pc_ip", "username", "password", "verify_ssl"}

\* bodies of POST /api/verify: every subset of the keys, {} included
VerifyBodies == UNION {[D -> VerifyValues] : D \in SUBSET VerifyKeys}

\* outcomes of gather_inventory: the inventory, or an exception of the
\* transport (session.post) or of raise_for_status (authentication)
InventoryResults ==
    {[raised |-> FALSE, text |-> <<>>],
     [raised |-> TRUE, text |-> <<"Connection", "refused">>],
     [raised |-> TRUE, text |-> <<"401", "Client", "Error">>]}

\* bodies of POST /api/start in the streaming scenario
StreamRequests ==
    [mode : Modes,
     hasPhases : {TRUE},
     phases : {<<"Deploy NKP">>},
     password : {"pw"}]

\* words of the lines handed to detect_phase on its own: in both cases, with
\* a keyword inside a longer word, and one ("verification") that only looks
\* like a keyword
ProbeWords == {"ok", "Verify", "VERIFY", "Verifying", "verification", "Deploy", "Preparing"}

ProbeLines == UNION {[1..n -> ProbeWords] : n \in 0..MaxWords}

ProbeModes == Modes \cup {"custom"}

\* the password a client types
SecretValue == "s3cret"

\* a dict with no key
EmptyDict == [key \in {} |-> <<>>]

\* request.json of POST /api/save-config and of POST /api/config, and the
\* dicts of JSON files sent to POST /api/upload-config
ConfigBodies ==
    { EmptyDict,
      PRISM_CENTRAL_PASSWORD :> <<SecretValue>>,
      (PRISM_CENTRAL_PASSWORD :> <<SecretValue>>) @@ (STORAGE_CONTAINER :> <<"c1">>),
      (CLUSTER_NAME :> <<>>) @@ (PRISM_CENTRAL_PASSWORD :> <<SecretValue>>) }

\* files in the env format sent to POST /api/upload-config, as their lines:
\* with and without the export prefix format_env_lines writes, with quotes
\* and blanks
EnvTexts ==
    { << <<"#", " ", "site">>,
         <<"PRISM_CENTRAL_PASSWORD", "=", "\"", SecretValue, "\"">> >>,
      << <<"export ", "STORAGE_CONTAINER", "=", "c1">>,
         <<"export ", "PRISM_CENTRAL_PASSWORD", "=", SecretValue>> >>,
      << <<" ">>, <<"STORAGE_CONTAINER", " ", "=", " ", "c1">> >> }

\* request.files["file"]: json tells whether json.loads accepts the content
UploadedFiles ==
    {[json |-> TRUE, dict |-> d, lines |-> <<>>] : d \in ConfigBodies}
    \cup {[json |-> FALSE, dict |-> EmptyDict, lines |-> l] : l \in EnvTexts}

(* ---------------------------------------------------------------- state *)
VARIABLES
    deployment_active,  \* module global, line 25
    current_mode,       \* module global, line 26
    state,              \* module global dict read and written by update_state
    os_environ,         \* PRISM_CENTRAL_PASSWORD of the server's environment
    log_queue,          \* queue.Queue of events
    handler,            \* the /api/start request handlers
    run,                \* the run_deployment threads, one per accepted start
    sub,                \* the /stream generators
    published,          \* history: every event put on log_queue, in order
    delivered,          \* history: tags of the events handed to subscribers
    spawned,            \* history: every child process started, with the lines
                        \* read from it, the places of their log events and of
                        \* its start and exit in the order of publication
    files,              \* ENV_FILE and DEPLOYMENT_FILE as persist_config wrote them
    probe,              \* a function under test: its arguments, its results
    verified            \* the response to the latest POST /api/verify

vars == <<deployment_active, current_mode, state, os_environ, log_queue,
          handler, run, sub, published, delivered, spawned, files, probe, verified>>

\* the dict `state` before any update: no key is set, so every .get() gives
\* its default and state.get("running") is falsy
InitialState ==
    [progress |-> <<0, 1>>, status |-> "idle", step |-> <<>>, running |-> FALSE]

NoRequest == [mode |-> "automated", hasPhases |-> TRUE, phases |-> <<>>, password |-> ""]

\* supplied is history: the password the request carried
IdleHandler ==
    [pc |-> "idle", req |-> NoRequest, env |-> "", response |-> "none", supplied |-> ""]

IdleRun ==
    [pc |-> "unstarted", mode |-> "automated", phases |-> <<>>, env |-> "",
     supplied |-> "", commands |-> <<>>, total |-> 0, index |-> 0, nlines |-> 0, outcome |-> "none"]

\* a stream generator; count, last, early, inOrder, fresh and endedActive are
\* history: how many events it was handed, the tag of the latest, whether it
\* connected before any start was accepted, whether every event came after the
\* one before it in publication order, whether none had been handed out
\* before, and deployment_active when it ended
IdleSub ==
    [pc |-> "idle", count |-> 0, last |-> 0, early |-> FALSE, inOrder |-> TRUE,
     fresh |-> TRUE, endedActive |-> FALSE]

\* no configuration file has been written
NoFiles == [env_file |-> <<>>, deployment_file |-> EmptyDict]

\* no function is under test
NoProbe == [line |-> <<>>, mode |-> "automated", results |-> <<>>]

\* the module globals after import
InitServer ==
    /\ deployment_active = FALSE
    /\ current_mode = "automated"
    /\ state = InitialState
    /\ os_environ \in EnvSecrets
    /\ log_queue = <<>>
    /\ handler = [h \in Handlers |-> IdleHandler]
    /\ run = [h \in Handlers |-> IdleRun]
    /\ sub = [s \in Subs |-> IdleSub]
    /\ published = <<>>
    /\ delivered = {}
    /\ spawned = <<>>

\* the arguments of gather_inventory before any call
NoCall == [host |-> <<>>, username |-> <<>>, password |-> <<>>, verify_ssl |-> FALSE]

\* no POST /api/verify has been answered
NoResponse ==
    [pc |-> "idle", code |-> 0, keys |-> {}, success |-> "absent", error |-> <<>>,
     call |-> NoCall]

Init ==
    /\ InitServer
    /\ files = NoFiles
    /\ probe = NoProbe
    /\ verified = NoResponse

(* ------------------------------------------------------------ event bus *)
\* enqueue_event: log_queue.put of one event; seq is a history tag giving the
\* event's place in the order of publication
enqueue_event(q, event_type, message, n) ==
    Append(q, [type |-> event_type, message |-> message, seq |-> n])

\* consecutive enqueue_event calls of one step of a thread
RECURSIVE PutAll(_, _, _)
PutAll(q, evs, base) ==
    IF evs = <<>> THEN q
    ELSE PutAll(enqueue_event(q, Head(evs)[1], Head(evs)[2], base + 1), Tail(evs), base + 1)

\* a get() that hands the message out and leaves it queued
QueueRest_Keep(q) == q

\* log_queue.get: the message handed out, and what stays queued
QueueFront(q) == Head(q)
QueueRest(q) == Tail(q)

\* the dict update of update_state: None arguments are not passed here
NewState(progress, status, step) ==
    [state EXCEPT !.progress = progress, !.status = status, !.step = step]

\* the progress event update_state enqueues after the update
ProgressEvent(st) ==
    <<"progress", [percent |-> st.progress, status |-> st.status, step |-> st.step]>>

\* a queue of bounded size, whose put() waits while the queue is full
Publish_Bounded(evs) ==
    /\ Len(log_queue) + Len(evs) <= 4
    /\ log_queue' = PutAll(log_queue, evs, Len(published))
    /\ published' = PutAll(published, evs, Len(published))

Publish(evs) ==
    /\ log_queue' = PutAll(log_queue, evs, Len(published))
    /\ published' = PutAll(published, evs, Len(published))

(* ------------------------------------------------- POST /api/start, 821 *)
\* a handler without the check of line 825
StartCheck_NoGate(h, req) ==
    /\ handler[h].pc = "idle"
    /\ IF req.password # ""
       THEN handler' = [handler EXCEPT ![h] =
                [pc |-> "accepted", req |-> req, env |-> req.password, response |-> "none",
                 supplied |-> req.password]]
       ELSE IF os_environ # ""
       THEN handler' = [handler EXCEPT ![h] =
                [pc |-> "accepted", req |-> req, env |-> os_environ, response |-> "none",
                 supplied |-> req.password]]
       ELSE handler' = [handler EXCEPT ![h] =
                [pc |-> "done", req |-> NoRequest, env |-> "", response |-> "nosecret",
                 supplied |-> req.password]]
    /\ UNCHANGED <<deployment_active, current_mode, state, os_environ, log_queue,
                   run, sub, published, delivered, spawned, files, probe, verified>>

\* a handler that keeps the supplied password in os.environ
StartCheck_StoreEnv(h, req) ==
    /\ handler[h].pc = "idle"
    /\ IF deployment_active
       THEN /\ handler' = [handler EXCEPT ![h] =
                [pc |-> "done", req |-> NoRequest, env |-> "", response |-> "conflict",
                 supplied |-> req.password]]
            /\ os_environ' = os_environ
       ELSE IF req.password # ""
       THEN /\ handler' = [handler EXCEPT ![h] =
                [pc |-> "accepted", req |-> req, env |-> req.password, response |-> "none",
                 supplied |-> req.password]]
            /\ os_environ' = req.password
       ELSE IF os_environ # ""
       THEN /\ handler' = [handler EXCEPT ![h] =
                [pc |-> "accepted", req |-> req, env |-> os_environ, response |-> "none",
                 supplied |-> req.password]]
            /\ os_environ' = os_environ
       ELSE /\ handler' = [handler EXCEPT ![h] =
                [pc |-> "done", req |-> NoRequest, env |-> "", response |-> "nosecret",
                 supplied |-> req.password]]
            /\ os_environ' = os_environ
    /\ UNCHANGED <<deployment_active, current_mode, state, log_queue,
                   run, sub, published, delivered, spawned, files, probe, verified>>

\* a handler without the test of line 839: a request without any password
\* is accepted
StartCheck_NoSecretCheck(h, req) ==
    /\ handler[h].pc = "idle"
    /\ IF deployment_active
       THEN handler' = [handler EXCEPT ![h] =
                [pc |-> "done", req |-> NoRequest, env |-> "", response |-> "conflict",
                 supplied |-> req.password]]
       ELSE IF req.password # ""
       THEN handler' = [handler EXCEPT ![h] =
                [pc |-> "accepted", req |-> req, env |-> req.password, response |-> "none",
                 supplied |-> req.password]]
       ELSE handler' = [handler EXCEPT ![h] =
                [pc |-> "accepted", req |-> req, env |-> os_environ, response |-> "none",
                 supplied |-> req.password]]
    /\ UNCHANGED <<deployment_active, current_mode, state, os_environ, log_queue,
                   run, sub, published, delivered, spawned, files, probe, verified>>

\* lines 825-846: the active check, the body, the secret
StartCheck(h, req) ==
    /\ handler[h].pc = "idle"
    /\ IF deployment_active
       THEN handler' = [handler EXCEPT ![h] =
                [pc |-> "done", req |-> NoRequest, env |-> "", response |-> "conflict",
                 supplied |-> req.password]]
       ELSE IF req.password # ""
       THEN handler' = [handler EXCEPT ![h] =
                [pc |-> "accepted", req |-> req, env |-> req.password, response |-> "none",
                 supplied |-> req.password]]
       ELSE IF os_environ # ""
       THEN handler' = [handler EXCEPT ![h] =
                [pc |-> "accepted", req |-> req, env |-> os_environ, response |-> "none",
                 supplied |-> req.password]]
       ELSE handler' = [handler EXCEPT ![h] =
                [pc |-> "done", req |-> NoRequest, env |-> "", response |-> "nosecret",
                 supplied |-> req.password]]
    /\ UNCHANGED <<deployment_active, current_mode, state, os_environ, log_queue,
                   run, sub, published, delivered, spawned, files, probe, verified>>

\* lines 848-855: current_mode, update_state, the thread
StartLaunch(h) ==
    /\ handler[h].pc = "accepted"
    /\ LET req == handler[h].req
           phases == IF req.hasPhases THEN req.phases ELSE PHASE_SETS(req.mode)
           st == NewState(<<0, 1>>, "running", <<"Queued deployment">>)
       IN  /\ current_mode' = req.mode
           /\ state' = st
           /\ Publish(<<ProgressEvent(st)>>)
           /\ run' = [run EXCEPT ![h] =
                  [pc |-> "ready", mode |-> req.mode, phases |-> phases,
                   env |-> handler[h].env, supplied |-> req.password,
                   commands |-> <<>>, total |-> 0,
                   index |-> 0, nlines |-> 0, outcome |-> "none"]]
           /\ handler' = [handler EXCEPT ![h] =
                  [pc |-> "done", req |-> NoRequest, env |-> "", response |-> "started",
                   supplied |-> req.password]]
    /\ UNCHANGED <<deployment_active, os_environ, sub, delivered, spawned, files, probe, verified>>

(* ------------------------------------------------- run_deployment, 674 *)
\* lines 676-684: the flag, the command list, the opening events
RunBegin(r) ==
    /\ run[r].pc = "ready"
    /\ deployment_active' = TRUE
    /\ LET commands == build_command_sequence(run[r].mode, run[r].phases)
           total_steps == IF Len(commands) = 0 THEN 1 ELSE Len(commands)
           start_message == <<"Starting", run[r].mode, "deployment flow">>
           st == NewState(<<0, 1>>, "running", <<"Initializing deployment">>)
       IN  /\ state' = st
           /\ Publish(<< <<"status", start_message>>, <<"log", start_message>>,
                         ProgressEvent(st) >>)
           /\ run' = [run EXCEPT ![r].pc = "loop", ![r].commands = commands,
                                 ![r].total = total_steps, ![r].index = 1]
    /\ UNCHANGED <<current_mode, os_environ, handler, sub, delivered, spawned, files, probe, verified>>

\* {**os.environ, **(extra_env or {})} at line 700, for the one variable
\* PRISM_CENTRAL_PASSWORD; "" is an environment without it
ChildEnv(environ, extra_env) == IF extra_env # "" THEN extra_env ELSE environ

\* a step that starts the progress bar again from 0
StepStartPercent_Reset(index, total_steps) == <<0, 1>>

\* ((index - 1) / total_steps) * 100 of line 691, as a fraction
StepStartPercent(index, total_steps) == <<(index - 1) * 100, total_steps>>

\* opening events with the status before the phase
StepOpening_StatusFirst(label, st) ==
    << <<"status", <<"Running", label>> >>,
       <<"phase", <<label>> >>,
       <<"log", <<"STEP", "Starting", label>> >>,
       ProgressEvent(st) >>

\* the events of lines 688-691, in the order of the calls
StepOpening(label, st) ==
    << <<"phase", <<label>> >>,
       <<"status", <<"Running", label>> >>,
       <<"log", <<"STEP", "Starting", label>> >>,
       ProgressEvent(st) >>

\* the child process run thread r started last
LastChild(r) ==
    CHOOSE i \in 1..Len(spawned) :
        /\ spawned[i].run = r
        /\ \A j \in (i + 1)..Len(spawned) : spawned[j].run # r

\* lines 686-701: the step's opening events, then Popen, which starts the
\* child or raises (the exception ends the thread: nothing catches it)
StepStart(r, popen_ok) ==
    /\ run[r].pc = "loop"
    /\ run[r].index <= Len(run[r].commands)
    /\ LET index == run[r].index
           label == run[r].commands[index].label
           st == NewState(StepStartPercent(index, run[r].total), "running",
                          <<"Starting", label>>)
       IN  /\ state' = st
           /\ Publish(StepOpening(label, st))
           /\ IF popen_ok
              THEN /\ run' = [run EXCEPT ![r].pc = "reading", ![r].nlines = 0]
                   /\ spawned' = Append(spawned,
                          [run |-> r, index |-> index,
                           command |-> run[r].commands[index].command,
                           env |-> ChildEnv(os_environ, run[r].env),
                           startedAt |-> Len(published) + Len(StepOpening(label, st)),
                           lines |-> <<>>, logs |-> <<>>,
                           exit |-> Alive, exitAt |-> 0])
              ELSE /\ run' = [run EXCEPT ![r].pc = "crashed", ![r].outcome = "raised"]
                   /\ spawned' = spawned
    /\ UNCHANGED <<deployment_active, current_mode, os_environ, handler, sub, delivered, files, probe, verified>>

\* a loop body that publishes the detected phase before the line
LineEvents_PhaseFirst(clean_line, detected) ==
    IF detected # ""
    THEN << <<"phase", <<detected>> >>, <<"log", clean_line>> >>
    ELSE << <<"log", clean_line>> >>

\* lines 706-709: the log event of a line, then the phase event if
\* detect_phase returned a label
LineEvents(clean_line, detected) ==
    IF detected # ""
    THEN << <<"log", clean_line>>, <<"phase", <<detected>> >> >>
    ELSE << <<"log", clean_line>> >>

\* lines 704-709: one line of the child's output
ReadLine(r, line, cap) ==
    /\ run[r].pc = "reading"
    /\ run[r].nlines < cap
    /\ LET clean_line == RStrip(line, Whitespace)
           detected == detect_phase(clean_line, run[r].mode)
       IN  Publish(LineEvents(clean_line, detected))
    /\ run' = [run EXCEPT ![r].nlines = @ + 1]
    /\ spawned' = [spawned EXCEPT ![LastChild(r)].lines = Append(@, line),
                                  ![LastChild(r)].logs = Append(@, Len(published) + 1)]
    /\ UNCHANGED <<deployment_active, current_mode, state, os_environ, handler,
                   sub, delivered, files, probe, verified>>

\* str(return_code) in the f-strings of lines 713-714
CodeText(return_code) ==
    CASE return_code = 0 -> "0" [] return_code = 1 -> "1" [] return_code = 137 -> "137"

\* the events and the state of a step that ended with return_code, 711-721
ExitEvents(label, return_code, st) ==
    IF return_code # 0
    THEN << <<"status", <<label, "failed with exit code", CodeText(return_code)>> >>,
            <<"log", <<"STEP", label, "failed with exit code", CodeText(return_code)>> >>,
            ProgressEvent(st) >>
    ELSE << <<"log", <<"STEP", "Completed", label>> >>, ProgressEvent(st) >>

ExitStatus(return_code) == IF return_code # 0 THEN "error" ELSE "running"

\* a loop that carries on with the next step whatever the exit code
AfterExit_Continue(return_code) == "loop"

\* where the thread goes after process.wait(), 712 and 718
AfterExit(return_code) == IF return_code # 0 THEN "fail_release" ELSE "loop"

\* a step's exit that leaves the bar where the step started
ExitPercent_Before(index, total_steps) == <<(index - 1) * 100, total_steps>>

\* a percent that counts the step after the one that ended
ExitPercent_Over(index, total_steps) == <<(index + 1) * 100, total_steps>>

\* (index / total_steps) * 100 of lines 715 and 721, as a fraction
ExitPercent(index, total_steps) == <<index * 100, total_steps>>

\* a loop that runs the same step again
NextIndex_Retry(index) == index

\* enumerate(commands, start=1) at line 686: the step after step index
NextIndex(index) == index + 1

\* lines 711-721 up to the release: end of output, process.wait()
StepExit(r, return_code) ==
    /\ run[r].pc = "reading"
    /\ LET index == run[r].index
           label == run[r].commands[index].label
           st == NewState(ExitPercent(index, run[r].total), ExitStatus(return_code),
                          IF return_code # 0 THEN <<label, "failed">>
                                             ELSE <<"Completed", label>>)
       IN  /\ state' = st
           /\ Publish(ExitEvents(label, return_code, st))
           /\ run' = [run EXCEPT
                  ![r].pc = AfterExit(return_code),
                  ![r].index = IF AfterExit(return_code) = "loop" THEN NextIndex(index)
                                                                  ELSE index,
                  ![r].outcome = IF return_code # 0 THEN "failing" ELSE @]
           /\ spawned' = [spawned EXCEPT ![LastChild(r)].exit = return_code,
                                         ![LastChild(r)].exitAt = Len(published)]
    /\ UNCHANGED <<deployment_active, current_mode, os_environ, handler, sub, delivered,
                   files, probe, verified>>

\* lines 716-718
FailRelease(r) ==
    /\ run[r].pc = "fail_release"
    /\ deployment_active' = FALSE
    /\ run' = [run EXCEPT ![r].pc = "done", ![r].outcome = "failed"]
    /\ UNCHANGED <<current_mode, state, os_environ, log_queue, handler, sub,
                   published, delivered, spawned, files, probe, verified>>

\* a last update that leaves the status at running
FinalState_Running == NewState(<<100, 1>>, "running", <<"Deployment flow completed">>)

\* the state update_state writes at line 725
FinalState == NewState(<<100, 1>>, "complete", <<"Deployment flow completed">>)

\* lines 723-725
FinishPublish(r) ==
    /\ run[r].pc = "loop"
    /\ run[r].index > Len(run[r].commands)
    /\ state' = FinalState
    /\ Publish(<< <<"status", <<"Deployment flow completed">> >>,
                  <<"log", <<"All deployment steps completed">> >>,
                  ProgressEvent(FinalState) >>)
    /\ run' = [run EXCEPT ![r].pc = "finish_release"]
    /\ UNCHANGED <<deployment_active, current_mode, os_environ, handler, sub, delivered, spawned, files, probe, verified>>

\* lines 726-727
FinishRelease(r) ==
    /\ run[r].pc = "finish_release"
    /\ deployment_active' = FALSE
    /\ run' = [run EXCEPT ![r].pc = "done", ![r].outcome = "complete"]
    /\ UNCHANGED <<current_mode, state, os_environ, log_queue, handler, sub,
                   published, delivered, spawned, files, probe, verified>>

(* ------------------------------------------------------- GET /stream, 863 *)
\* a client opens the stream: the generator starts
Connect(s) ==
    /\ sub[s].pc = "idle"
    /\ sub' = [sub EXCEPT ![s].pc = "polling",
                          ![s].early = \A r \in Handlers : run[r].pc = "unstarted"]
    /\ UNCHANGED <<deployment_active, current_mode, state, os_environ, log_queue,
                   handler, run, published, delivered, spawned, files, probe, verified>>

\* lines 868-869: get() returns a message, which is yielded to the client
StreamGet(s) ==
    /\ sub[s].pc = "polling"
    /\ log_queue # <<>>
    /\ LET message == QueueFront(log_queue)
       IN  /\ sub' = [sub EXCEPT ![s].count = @ + 1,
                                 ![s].last = message.seq,
                                 ![s].inOrder = @ /\ message.seq > sub[s].last,
                                 ![s].fresh = @ /\ message.seq \notin delivered]
           /\ delivered' = delivered \cup {message.seq}
    /\ log_queue' = QueueRest(log_queue)
    /\ UNCHANGED <<deployment_active, current_mode, state, os_environ, handler,
                   run, published, spawned, files, probe, verified>>

\* a generator that never ends on an empty queue
StreamIdle_Never == FALSE

\* the test of line 871 that ends the generator
StreamIdle == ~state.running

\* lines 870-873: get() timed out on an empty queue
StreamEmpty(s) ==
    /\ sub[s].pc = "polling"
    /\ log_queue = <<>>
    /\ StreamIdle
    /\ sub' = [sub EXCEPT ![s].pc = "closed", ![s].endedActive = deployment_active]
    /\ UNCHANGED <<deployment_active, current_mode, state, os_environ, log_queue,
                   handler, run, published, delivered, spawned, files, probe, verified>>

(* ------------------------------------------------- POST /api/verify *)
\* body.get(key, "") on the JSON object of the request
BodyGet(body, key) == IF key \in DOMAIN body THEN body[key] ELSE JsonString(<<>>)

\* bool(value) of line 740
Truthy(value) == value.kind = "string" /\ value.text # <<>>

\* line 743: the 400 response {"error": ...}
VerifyRejected ==
    [NoResponse EXCEPT !.code = 400, !.keys = {"error"}, !.error = <<"required">>]

\* .strip() of a value that is not a string raises AttributeError outside
\* the try block: the framework answers with its own 500 page
VerifyUnhandled == [NoResponse EXCEPT !.code = 500]

\* line 748: {"success": True, "inventory": inventory}
VerifySuccess(call) ==
    [NoResponse EXCEPT !.code = 200, !.keys = {"success", "inventory"},
                       !.success = "true", !.call = call]

\* line 750: {"success": False, "error": str(exc)} with status 500
VerifyFailure(call, exc) ==
    [NoResponse EXCEPT !.code = 500, !.keys = {"success", "error"},
                       !.success = "false", !.error = exc, !.call = call]

\* lines 735-745: the fields are read and checked, then the client is called
api_verify(body) ==
    /\ verified.pc # "calling"
    /\ LET pc_ip == BodyGet(body, "pc_ip")
           username == BodyGet(body, "username")
           password == BodyGet(body, "password")
           host == StripChars(pc_ip.text, Whitespace)
           user == StripChars(username.text, Whitespace)
           pass == StripChars(password.text, Whitespace)
           verify_ssl == "verify_ssl" \in DOMAIN body /\ Truthy(body["verify_ssl"])
       IN  verified' =
             IF "null" \in {pc_ip.kind, username.kind, password.kind}
             THEN VerifyUnhandled
             ELSE IF host = <<>> \/ user = <<>> \/ pass = <<>>
                  THEN VerifyRejected
                  ELSE [NoResponse EXCEPT
                          !.pc = "calling",
                          !.call = [host |-> host, username |-> user,
                                    password |-> pass, verify_ssl |-> verify_ssl]]
    /\ UNCHANGED <<deployment_active, current_mode, state, os_environ, log_queue,
                   handler, run, sub, published, delivered, spawned, files, probe>>

\* a handler that records the failure of the client in the run state
api_verify_gather_Recording(result) ==
    /\ verified.pc = "calling"
    /\ verified' = IF result.raised
                   THEN VerifyFailure(verified.call, result.text)
                   ELSE VerifySuccess(verified.call)
    /\ state' = IF result.raised THEN [state EXCEPT !.status = "error"] ELSE state
    /\ UNCHANGED <<deployment_active, current_mode, os_environ, log_queue,
                   handler, run, sub, published, delivered, spawned, files, probe>>

\* lines 746-750: gather_inventory returns the inventory or raises
api_verify_gather(result) ==
    /\ verified.pc = "calling"
    /\ verified' = IF result.raised
                   THEN VerifyFailure(verified.call, result.text)
                   ELSE VerifySuccess(verified.call)
    /\ UNCHANGED <<deployment_active, current_mode, state, os_environ, log_queue,
                   handler, run, sub, published, delivered, spawned, files, probe>>

(* ------------------------------------------- configuration endpoints *)
\* POST /api/save-config, 753-758
api_save_config(data) ==
    /\ files' = persist_config(Merge(defaults, data))
    /\ UNCHANGED <<deployment_active, current_mode, state, os_environ, log_queue,
                   handler, run, sub, published, delivered, spawned, probe, verified>>

\* POST /api/upload-config, 768-785, up to persist_config
api_upload_config(file) ==
    /\ LET parsed == IF file.json THEN file.dict
                     ELSE ParseEnvLines(file.lines, EmptyDict)
       IN  files' = persist_config(Merge(defaults, parsed))
    /\ UNCHANGED <<deployment_active, current_mode, state, os_environ, log_queue,
                   handler, run, sub, published, delivered, spawned, probe, verified>>

\* POST /api/config, 797-818: nothing is written when a required field is missing
save_config(payload) ==
    /\ LET merged_config == Merge(DEFAULT_CONFIG, payload)
       IN  IF validate_config(merged_config) # {}
           THEN files' = files
           ELSE files' = persist_config(merged_config)
    /\ UNCHANGED <<deployment_active, current_mode, state, os_environ, log_queue,
                   handler, run, sub, published, delivered, spawned, probe, verified>>

\* POST /api/run, 788-795: the gate reads state["running"]; the thread is
\* started with no arguments, so run_deployment() raises TypeError in it
\* before its first statement
api_run(h, body) ==
    /\ handler[h].pc = "idle"
    /\ IF state.running
       THEN /\ handler' = [handler EXCEPT ![h] =
                    [IdleHandler EXCEPT !.pc = "done", !.response = "already running"]]
            /\ UNCHANGED <<files, run>>
       ELSE /\ files' = persist_config(body)
            /\ run' = [run EXCEPT ![h] =
                    [IdleRun EXCEPT !.pc = "crashed", !.outcome = "raised"]]
            /\ handler' = [handler EXCEPT ![h] =
                    [IdleHandler EXCEPT !.pc = "done", !.response = "success"]]
    /\ UNCHANGED <<deployment_active, current_mode, state, os_environ, log_queue,
                   sub, published, delivered, spawned, probe, verified>>

(* ------------------------------------------------------ function calls *)
\* one call of detect_phase with the arguments of probe
Classify ==
    /\ Len(probe.results) < MaxCalls
    /\ probe' = [probe EXCEPT !.results = Append(@, detect_phase(probe.line, probe.mode))]
    /\ UNCHANGED <<deployment_active, current_mode, state, os_environ, log_queue,
                   handler, run, sub, published, delivered, spawned, files, verified>>

\* one step of run thread r whose child processes print lines of L
RunStep(r, L, cap) ==
    \/ RunBegin(r)
    \/ \E popen_ok \in BOOLEAN : StepStart(r, popen_ok)
    \/ \E line \in L : ReadLine(r, line, cap)
    \/ \E return_code \in ExitCodes : StepExit(r, return_code)
    \/ FailRelease(r)
    \/ FinishPublish(r)
    \/ FinishRelease(r)

\* the request handlers H serving bodies drawn from R
StartNext(H, R) ==
    \/ \E h \in H, req \in R : StartCheck(h, req)
    \/ \E h \in H : StartLaunch(h)

RunNext(H, L, cap) == \E r \in H : RunStep(r, L, cap)

SubNext(S) == \E s \in S : Connect(s) \/ StreamGet(s) \/ StreamEmpty(s)

\* concurrent start requests and the run threads they start
Next == StartNext(Handlers, Requests) \/ RunNext(Handlers, {<<"ok">>}, MaxLines)

Spec == Init /\ [][Next]_vars

\* start requests with and without a password, one after the other or at
\* once, on a server with and without PRISM_CENTRAL_PASSWORD
NextSecrets == StartNext(Handlers, SecretRequests) \/ RunNext(Handlers, {<<"ok">>}, MaxLines)

SpecSecrets == Init /\ [][NextSecrets]_vars

\* the server started without PRISM_CENTRAL_PASSWORD in its environment
InitNoEnv == Init /\ os_environ = ""

\* one client's start requests and the run thread
NextRun == StartNext({1}, RunRequests) \/ RunNext({1}, RunLines, MaxLines)

SpecRun == InitNoEnv /\ [][NextRun]_vars

\* one start request, its run thread, and the stream subscribers
NextStream ==
    \/ StartNext({1}, StreamRequests)
    \/ RunNext({1}, Lines, MaxLines)
    \/ SubNext(Subs)

SpecStream == InitNoEnv /\ [][NextStream]_vars

\* bodies of POST /api/start for runs of one and of two steps
OutputRequests ==
    {req \in RunRequests :
        /\ req.mode \in Modes
        /\ req.phases = <<"Prepare nodes", "Deploy NKP">>}

\* one client's run whose child processes print up to MaxOutput lines
NextOutput ==
    \/ StartNext({1}, OutputRequests)
    \/ RunNext({1}, OutputLines, MaxOutput)

SpecOutput == InitNoEnv /\ [][NextOutput]_vars

VerifyNext ==
    \/ \E body \in VerifyBodies : api_verify(body)
    \/ \E result \in InventoryResults : api_verify_gather(result)

\* inventory verification requests before, during and after a run
NextVerify ==
    \/ StartNext({1}, StreamRequests)
    \/ RunNext({1}, {<<"ok">>}, MaxLines)
    \/ VerifyNext

SpecVerify == InitNoEnv /\ [][NextVerify]_vars

\* the loop of a generator whose client keeps reading: each get() returns a
\* message or times out after a second
StreamLoop(s) == StreamGet(s) \/ StreamEmpty(s)

\* an automated run and the stream subscribers
NextStreamLive ==
    \/ StartNext({1}, {req \in StreamRequests : req.mode = "automated"})
    \/ RunNext({1}, {<<"ok">>}, MaxLines)
    \/ SubNext(Subs)

\* the same with every open stream's loop scheduled fairly
SpecStreamFair ==
    /\ InitNoEnv
    /\ [][NextStreamLive]_vars
    /\ \A s \in Subs : WF_vars(StreamLoop(s))

\* the same with the run thread scheduled fairly and every child process
\* ending, while the subscribers connect and read as slowly as they like, or
\* never
SpecPublishFair ==
    /\ InitNoEnv
    /\ [][NextStreamLive]_vars
    /\ WF_vars(RunNext({1}, {<<"ok">>}, MaxLines))

\* one run after the other: the second start request is sent once the
\* first run has returned; one stream subscriber connects at any time
NextRuns ==
    \/ StartNext({1}, {req \in StreamRequests : req.mode = "automated"})
    \/ /\ run[1].pc = "done"
       /\ StartNext({2}, {req \in StreamRequests : req.mode = "automated"})
    \/ RunNext(Handlers, {<<"ok">>}, MaxLines)
    \/ SubNext({1})

SpecRuns == InitNoEnv /\ [][NextRuns]_vars

\* a start request, its run, and a request to the legacy endpoint
NextLegacy ==
    \/ StartNext({1}, StreamRequests)
    \/ RunNext({1}, {<<"ok">>}, MaxLines)
    \/ \E body \in ConfigBodies \ {EmptyDict} : api_run(2, body)

SpecLegacy == InitNoEnv /\ [][NextLegacy]_vars

ConfigNext ==
    \/ \E data \in ConfigBodies : api_save_config(data)
    \/ \E file \in UploadedFiles : api_upload_config(file)
    \/ \E payload \in ConfigBodies : save_config(payload)

\* the configuration endpoints, one client's start requests and the run thread
NextConfig ==
    \/ ConfigNext
    \/ StartNext({1}, StreamRequests)
    \/ RunNext({1}, {<<"ok">>}, MaxLines)

SpecConfig == InitNoEnv /\ [][NextConfig]_vars

\* detect_phase on its own: any line, any mode
InitClassify ==
    /\ InitServer
    /\ os_environ = ""
    /\ files = NoFiles
    /\ verified = NoResponse
    /\ probe \in [line : ProbeLines, mode : ProbeModes, results : {<<>>}]

NextClassify == Classify

SpecClassify == InitClassify /\ [][NextClassify]_vars

(* --------------------------------------------------------------- claims *)
\* run thread r is inside run_deployment: past line 675, not yet returned
Executing(r) == run[r].pc \in {"loop", "reading", "fail_release", "finish_release"}

\* the child process of run thread r is alive
ChildAlive(r) == run[r].pc = "reading"

\* run thread r has ended: returned, or died of an exception
Ended(r) == run[r].pc \in {"done", "crashed"}

\* child processes run thread r has started
SpawnCount(r) == Cardinality({i \in 1..Len(spawned) : spawned[i].run = r})

PercentEq(p, q) == p[1] * q[2] = q[1] * p[2]

\* the last n events published
LastPublished(n) == SubSeq(published, Len(published) - n + 1, Len(published))

\* C1: at most one run_deployment routine executes at any time, and so at
\* most one step child process is alive, whatever the interleaving of start
\* requests and run threads.
C1_AtMostOneRun ==
    /\ Cardinality({r \in Handlers : Executing(r)}) <= 1
    /\ Cardinality({r \in Handlers : ChildAlive(r)}) <= 1

\* C2: a start request that finds deployment_active true is answered with the
\* conflict response and changes nothing: no thread, no child process, and
\* state, current_mode, the queue and the flag stay as they were.
C2_StartWhileActiveRejected ==
    [][\A h \in Handlers :
        (deployment_active /\ handler[h].pc = "idle" /\ handler'[h].pc # "idle")
        => /\ handler'[h].pc = "done"
           /\ handler'[h].response = "conflict"
           /\ UNCHANGED <<deployment_active, current_mode, state, log_queue, run,
                          published, spawned>>]_vars

\* a request was turned away while a run thread was executing
C2_Witness ==
    \E h \in Handlers :
        /\ handler[h].response = "conflict"
        /\ \E r \in Handlers : Executing(r)

\* C3: once a step of a run exits non-zero, the run spawns no later step (the
\* children it has started are those of steps 1..index, index the failed
\* step), it leaves the loop, and RunState.status is error.
C3_StopOnFirstFailure ==
    \A r \in Handlers :
        run[r].outcome \in {"failing", "failed"}
        => /\ run[r].pc \in {"fail_release", "done"}
           /\ SpawnCount(r) = run[r].index
           /\ \A i \in 1..Len(spawned) : spawned[i].run = r => spawned[i].index <= run[r].index
           /\ state.status = "error"

\* a two-step run whose first step exited 137 has ended
C3_Witness ==
    \E r \in Handlers :
        /\ run[r].outcome = "failed"
        /\ run[r].index = 1
        /\ Len(run[r].commands) = 2
        /\ \E i \in 1..Len(published) :
              /\ published[i].type = "status"
              /\ published[i].message =
                    <<run[r].commands[1].label, "failed with exit code", "137">>

\* C4: every way a run can end leaves deployment_active false: all steps
\* succeeded, a step exited non-zero, or Popen raised.
C4_EndedRunReleased ==
    \A r \in Handlers : Ended(r) => ~deployment_active

\* C5: a step whose command cannot be launched ends the run as a non-zero exit
\* does: a failure status event is published and RunState.status is error.
C5_SpawnErrorIsFailure ==
    \A r \in Handlers :
        run[r].outcome = "raised"
        => /\ state.status = "error"
           /\ \E i \in 1..Len(published) :
                 /\ published[i].type = "status"
                 /\ Len(published[i].message) >= 2
                 /\ published[i].message[2] = "failed with exit code"

\* the three closing events of lines 723-725 are the latest published
FinalPublished ==
    /\ Len(published) >= 3
    /\ LET last == LastPublished(3)
       IN  /\ last[1].type = "status"
           /\ last[1].message = <<"Deployment flow completed">>
           /\ last[2].type = "log"
           /\ last[3].type = "progress"
           /\ PercentEq(last[3].message.percent, <<100, 1>>)
           /\ last[3].message.status = "complete"

\* C6: a run whose steps all exited 0 ends with progress 100, status complete
\* and deployment_active false, and its closing events are on the queue
\* before the flag is cleared.
C6_CompleteRun ==
    \A r \in Handlers :
        /\ run[r].pc = "finish_release" => (deployment_active /\ FinalPublished)
        /\ run[r].outcome = "complete"
           => /\ ~deployment_active
              /\ FinalPublished
              /\ PercentEq(state.progress, <<100, 1>>)
              /\ state.status = "complete"
              /\ SpawnCount(r) = Len(run[r].commands)

\* a two-step run has completed
C6_Witness ==
    \E r \in Handlers :
        /\ run[r].outcome = "complete"
        /\ Len(run[r].commands) = 2
        /\ SpawnCount(r) = 2

\* C7: a stream ends only when deployment_active is false.
C7_EndsOnlyWhenInactive ==
    \A s \in Subs : sub[s].pc = "closed" => ~sub[s].endedActive

\* C8: once the run and the stream have ended, the only subscriber, connected
\* before the start request and handed at least one event, has been handed
\* every event published, and none is left on the queue.
C8_SingleSubscriberGetsAll ==
    (/\ run[1].pc = "done"
     /\ sub[1].pc = "closed"
     /\ sub[1].early
     /\ sub[1].count > 0
     /\ sub[2].pc = "idle")
    => /\ sub[1].count = Len(published)
       /\ log_queue = <<>>

\* C9: each subscriber is handed events in the order of their publication,
\* and no event is handed out twice, to the same or to another subscriber.
C9_OrderedNoDuplicates ==
    /\ \A s \in Subs : sub[s].inOrder /\ sub[s].fresh
    /\ Cardinality(delivered) = sub[1].count + sub[2].count
    /\ \A i \in 1..Len(log_queue) : log_queue[i].seq \notin delivered

\* both subscribers were handed events of a run in turn, the run has ended
C9_Witness ==
    /\ sub[1].count >= 2
    /\ sub[2].count >= 2
    /\ sub[1].last = Len(published)
    /\ sub[2].last = Len(published) - 1
    /\ run[1].pc = "done"

\* C10: two subscribers connected before the run and still connected after
\* its end, with the queue drained, have each been handed every event.
C10_Broadcast ==
    (/\ Ended(1)
     /\ log_queue = <<>>
     /\ \A s \in Subs : sub[s].early /\ sub[s].pc = "polling")
    => \A s \in Subs : sub[s].count = Len(published)

\* the pieces of a text
Pieces(text) == {text[i] : i \in 1..Len(text)}

\* C11: after any sequence of save, upload and start operations the value of
\* the runtime secret is in no persisted file: the environment file has no
\* line for PRISM_CENTRAL_PASSWORD, and the JSON deployment file holds
\* "<redacted>" or the empty string for it and the value nowhere.
C11_SecretNotPersisted ==
    /\ \A i \in 1..Len(files.env_file) :
          /\ SecretValue \notin Pieces(files.env_file[i])
          /\ "PRISM_CENTRAL_PASSWORD" \notin Pieces(files.env_file[i])
    /\ \A key \in DOMAIN files.deployment_file :
          SecretValue \notin Pieces(files.deployment_file[key])
    /\ PRISM_CENTRAL_PASSWORD \in DOMAIN files.deployment_file
       => files.deployment_file[PRISM_CENTRAL_PASSWORD] \in {<<"<redacted>">>, <<>>}

\* C12: every child process of a run has in its environment the password its
\* start request supplied, laid over the server's environment; a run whose
\* request supplied none has the server's own, never the password of another
\* request; and no request's password is kept in os.environ or in an event.
C12_SecretOfItsRunOnly ==
    /\ \A i \in 1..Len(spawned) :
          LET r == spawned[i].run
          IN  IF run[r].supplied # ""
              THEN spawned[i].env = run[r].supplied
              ELSE spawned[i].env \in EnvSecrets \ {""}
    /\ os_environ \in EnvSecrets
    /\ \A i \in 1..Len(published) :
          /\ published[i].type # "progress"
             => Pieces(published[i].message) \cap Secrets = {}
          /\ published[i].type = "progress"
             => Pieces(published[i].message.step) \cap Secrets = {}

\* a run started with the password pw has spawned its child and ended, and a
\* later run started without a password has spawned a child that sees the
\* server's own
C12_Witness ==
    \E i, j \in 1..Len(spawned) :
        /\ i < j
        /\ spawned[i].run # spawned[j].run
        /\ run[spawned[i].run].supplied = "pw"
        /\ spawned[i].env = "pw"
        /\ run[spawned[i].run].pc = "done"
        /\ run[spawned[j].run].supplied = ""
        /\ spawned[j].env = "envpw"

\* C13: a start request that carries no password, on a server whose
\* environment has none, is answered with a 400 response and changes nothing:
\* no run thread, and state, current_mode, the queue and the flag stay as they
\* were.
C13_NoSecretRejected ==
    [][\A h \in Handlers :
        (/\ handler[h].pc = "idle"
         /\ handler'[h].pc # "idle"
         /\ handler'[h].supplied = ""
         /\ os_environ = "")
        => /\ handler'[h].pc = "done"
           /\ handler'[h].response \in {"nosecret", "conflict"}
           /\ UNCHANGED <<deployment_active, current_mode, state, log_queue, run,
                          published, spawned>>]_vars

\* a request without a password was turned away for that reason while no
\* run was active
C13_Witness ==
    \E h \in Handlers :
        /\ handler[h].response = "nosecret"
        /\ handler[h].supplied = ""
        /\ os_environ = ""
        /\ ~deployment_active

\* a label of phases that PHASE_COMMANDS does not hold
HasUnknownLabel(phases) ==
    \E k \in 1..Len(phases) : PHASE_COMMANDS(phases[k]) = ""

\* C14: a phased run whose phases hold a label that is not in the catalog
\* spawns no child process and does not end as complete: the unknown label is
\* a configuration error, not a label to skip.
C14_UnknownLabelIsError ==
    \A r \in Handlers :
        (/\ run[r].mode = "phased"
         /\ run[r].pc \notin {"unstarted", "ready"}
         /\ HasUnknownLabel(run[r].phases))
        => /\ SpawnCount(r) = 0
           /\ run[r].outcome # "complete"
           /\ run[r].pc = "done" => state.status = "error"

\* the step list of an automated run
CompositeStep ==
    <<[label |-> "Parallel deploy + verify", command |-> "parallel-deploy-and-verify.sh"]>>

\* C15: an automated run has the one composite step as its step list whatever
\* phases its request carried (none, an empty list, unknown labels, labels of
\* the catalog); it never starts a second child process, and once it has
\* returned it has started exactly one.
C15_AutomatedSingleStep ==
    \A r \in Handlers :
        (run[r].mode = "automated" /\ run[r].pc \notin {"unstarted", "ready"})
        => /\ run[r].commands = CompositeStep
           /\ run[r].total = 1
           /\ SpawnCount(r) <= 1
           /\ run[r].pc \in {"reading", "fail_release", "finish_release", "done"}
              => SpawnCount(r) = 1
           /\ \A i \in 1..Len(spawned) :
                 spawned[i].run = r => spawned[i].command = "parallel-deploy-and-verify.sh"

\* an automated run asked for an unknown label and one of the catalog has
\* returned after one child process
C15_Witness ==
    \E r \in Handlers :
        /\ run[r].mode = "automated"
        /\ run[r].phases = <<"Bogus", "Verify deployment">>
        /\ run[r].pc = "done"
        /\ SpawnCount(r) = 1

\* C16: when the step at position index of total exits non-zero, progress is
\* index/total*100 and stays so to the run's end, with status error: the
\* failed step counts as completed.  A two-step run whose second step fails
\* ends at 100.
C16_FailedStepCounted ==
    \A r \in Handlers :
        run[r].outcome \in {"failing", "failed"}
        => /\ PercentEq(state.progress, <<run[r].index * 100, run[r].total>>)
           /\ state.status = "error"
           /\ (run[r].total = 2 /\ run[r].index = 2)
              => PercentEq(state.progress, <<100, 1>>)

\* a two-step phased run whose first step exited 0 and whose second exited 1
\* has ended at progress 100 with status error
C16_Witness ==
    \E r \in Handlers :
        /\ run[r].mode = "phased"
        /\ run[r].outcome = "failed"
        /\ run[r].pc = "done"
        /\ Len(run[r].commands) = 2
        /\ run[r].index = 2
        /\ PercentEq(state.progress, <<100, 1>>)
        /\ state.status = "error"
        /\ \E i \in 1..Len(published) :
              /\ published[i].type = "status"
              /\ published[i].message =
                    <<run[r].commands[2].label, "failed with exit code", "1">>

\* the percent of every progress event published, in order: update_state
\* publishes one for each update of state
RECURSIVE ProgressTrail(_)
ProgressTrail(events) ==
    IF events = <<>> THEN <<>>
    ELSE IF Head(events).type = "progress"
         THEN <<Head(events).message.percent>> \o ProgressTrail(Tail(events))
         ELSE ProgressTrail(Tail(events))

PercentLeq(p, q) == p[1] * q[2] <= q[1] * p[2]

\* a percent in units of 1/total_steps
PercentUnits(p, total_steps) == (p[1] * total_steps) \div p[2]

\* the sum of the increases between consecutive entries of trail
RECURSIVE SumIncreases(_, _)
SumIncreases(trail, total_steps) ==
    IF Len(trail) < 2 THEN 0
    ELSE (PercentUnits(trail[2], total_steps) - PercentUnits(trail[1], total_steps))
         + SumIncreases(Tail(trail), total_steps)

C18_Reenterable ==
    [][\A h \in Handlers :
        (/\ handler[h].pc = "idle"
         /\ handler'[h].pc # "idle"
         /\ handler'[h].supplied # ""
         /\ \E r \in Handlers : Ended(r)
         /\ \A r \in Handlers : run[r].pc \in {"unstarted", "done", "crashed"}
         /\ \A g \in Handlers : handler[g].pc # "accepted")
        => handler'[h].pc = "accepted"]_vars

\* the rules whose keyword is in the lower-cased line
MatchingRules(line) ==
    {i \in 1..Len(PHASE_KEYWORDS) :
        \E k \in 1..Len(line) : Contains(Lower(line[k]), PHASE_KEYWORDS[i][1])}

\* the least number of a non-empty set of numbers
Least(S) == CHOOSE i \in S : \A j \in S : i <= j

\* C19: for a line that holds the keyword of one rule or more, detect_phase
\* returns the label of the earliest of them in rule order, wherever the
\* keywords stand in the line, and every call with the same line and mode
\* returns the same label.
C19_FirstRuleWins ==
    \A n \in 1..Len(probe.results) :
        /\ MatchingRules(probe.line) # {}
           => probe.results[n] = PHASE_KEYWORDS[Least(MatchingRules(probe.line))][2]
        /\ probe.results[n] = probe.results[1]

\* a line with the keyword of the second rule before that of the first was
\* classified twice as the first rule's label
C19_Witness ==
    /\ probe.line = <<"Deploy", "Preparing">>
    /\ Cardinality(MatchingRules(probe.line)) = 2
    /\ probe.results = <<PHASE_KEYWORDS[1][2], PHASE_KEYWORDS[1][2]>>

\* C20: when no rule's keyword is in the lower-cased line, detect_phase
\* returns "Verify deployment" if the mode is automated and the line holds
\* "verify" in any case, and None otherwise.
C20_Fallback ==
    \A n \in 1..Len(probe.results) :
        MatchingRules(probe.line) = {}
        => probe.results[n] =
              IF /\ probe.mode = "automated"
                 /\ \E k \in 1..Len(probe.line) : Contains(Lower(probe.line[k]), "verify")
              THEN "Verify deployment"
              ELSE ""

\* an upper-case VERIFY gave the verification label in automated mode
C20_Witness ==
    /\ probe.mode = "automated"
    /\ probe.line = <<"ok", "VERIFY">>
    /\ probe.results = <<"Verify deployment">>

\* the lines of child process i that hold "verify" in any case
VerifyLines(i) ==
    {k \in 1..Len(spawned[i].lines) :
        \E w \in 1..Len(spawned[i].lines[k]) :
            Contains(Lower(spawned[i].lines[k][w]), "verify")}

\* the phase events published that carry the verification label
VerifyPhaseEvents ==
    {n \in 1..Len(published) :
        published[n].type = "phase" /\ published[n].message = <<"Verify deployment">>}

C22_SingleWriter ==
    [][\A h \in Handlers :
        handler'[h] # handler[h] => (state' = state /\ published' = published)]_vars

\* run thread r has been started and has not ended
InProgress(r) ==
    run[r].pc \in {"ready", "loop", "reading", "fail_release", "finish_release"}

\* C23: from the acceptance of a run to its end, the mode the status query
\* reports (current_mode) is the mode the run was started with, whatever
\* further start requests arrive.
C23_ModeImmutable ==
    \A r \in Handlers : InProgress(r) => current_mode = run[r].mode

\* C24: every label of PHASE_SETS["automated"] and PHASE_SETS["phased"] is a
\* key of PHASE_COMMANDS: a run started without phases, which gets the step
\* set of its mode, has no label the catalog does not hold.
C24_StepSetsResolve ==
    \A r \in Handlers :
        (/\ run[r].pc # "unstarted"
         /\ run[r].mode \in Modes
         /\ run[r].phases = PHASE_SETS(run[r].mode))
        => /\ ~HasUnknownLabel(run[r].phases)
           /\ Len(MapPhases(run[r].phases)) = Len(run[r].phases)

\* C25: once the run has ended with deployment_active false, and so nothing
\* more is published, the stream of every connected subscriber whose loop
\* keeps running eventually ends.
C25_StreamTerminates ==
    \A s \in Subs :
        (sub[s].pc = "polling" /\ run[1].pc = "done" /\ ~deployment_active)
        ~> sub[s].pc = "closed"

\* the run has ended while both subscribers were connected and events were
\* still queued, and a stream has ended after it
C25_Witness ==
    /\ run[1].pc = "done"
    /\ ~deployment_active
    /\ sub[1].pc = "closed"
    /\ sub[1].last = Len(published)
    /\ sub[2].pc = "polling"
    /\ sub[2].count > 0

\* p is a percent of the closed range [0, 100]
InRange(p) == 0 <= p[1] /\ p[1] <= 100 * p[2] /\ p[2] > 0

\* C26: in every reachable state state["progress"] lies in [0, 100], and so
\* does every progress event published, whatever the mode, the number of
\* steps and the exit codes of the steps.
C26_ProgressInRange ==
    /\ InRange(state.progress)
    /\ \A i \in 1..Len(ProgressTrail(published)) : InRange(ProgressTrail(published)[i])

\* the third of four steps has failed: progress stays at 75 with status error
C26_Witness ==
    /\ run[1].outcome = "failed"
    /\ run[1].total = 4
    /\ run[1].index = 3
    /\ state.status = "error"
    /\ PercentEq(state.progress, <<75, 1>>)

\* the variables of the orchestrator: the flag, the mode, the run state,
\* the event queue and what was published, the runs and their children
OrchestratorVars ==
    <<deployment_active, current_mode, state, os_environ, log_queue, published,
      handler, run, spawned>>

\* a failure response that is a JSON object holding the error
Structured(response) ==
    \/ response.code = 400 /\ response.keys = {"error"} /\ response.error # <<>>
    \/ /\ response.code = 500
       /\ response.keys = {"success", "error"}
       /\ response.success = "false"

\* C27: a POST /api/verify that succeeds, is rejected for missing fields or
\* fails with an error of the client leaves the flag, the mode, the run
\* state and the event queue as they were, and a rejection or failure is
\* answered with a structured error.
C27_VerifyFrame ==
    [][verified' # verified
       => /\ UNCHANGED OrchestratorVars
          /\ (\/ verified'.code = 400
              \/ (verified.pc = "calling" /\ verified'.code # 200))
             => Structured(verified')]_vars

\* the client has failed while a step of a run was executing
C27_Witness ==
    /\ verified.code = 500
    /\ verified.success = "false"
    /\ verified.call.host = <<"v">>
    /\ run[1].pc = "reading"
    /\ deployment_active

\* the child processes run r has spawned, in the order of their start
ChildrenOf(r) == SelectSeq(spawned, LAMBDA c : c.run = r)

\* C28: the steps of a run are executed one after the other in the order of
\* the resolved step list, each at most once: the k-th child of a run is the
\* process of step k, step k+1 is spawned only after the child of step k has
\* exited with code 0, and no two children of the same run are alive.
C28_Sequential ==
    \A r \in Handlers :
        LET children == ChildrenOf(r)
        IN  /\ Len(children) <= Len(run[r].commands)
            /\ \A k \in 1..Len(children) :
                  /\ children[k].index = k
                  /\ children[k].command = run[r].commands[k].command
            /\ \A k \in 1..(Len(children) - 1) :
                  /\ children[k].exit = 0
                  /\ children[k].exitAt < children[k + 1].startedAt
            /\ Cardinality({k \in 1..Len(children) : children[k].exit = Alive}) <= 1

\* the third step of a phased run of four is running after the first two
\* have exited with code 0
C28_Witness ==
    /\ Len(run[1].commands) = 4
    /\ Len(ChildrenOf(1)) = 3
    /\ ChildrenOf(1)[2].exit = 0
    /\ ChildrenOf(1)[3].exit = Alive
    /\ run[1].pc = "reading"

\* the steps of its run that had completed when child i was spawned
CompletedBefore(i) ==
    Cardinality({k \in 1..(i - 1) : spawned[k].run = spawned[i].run /\ spawned[k].exit = 0})

\* C29: for each step the run publishes the phase event of the step's label,
\* then the status Running <label>, and sets the progress to
\* (completed steps / total steps) * 100 with status running, all before the
\* step's child process is spawned and so before any log event that carries
\* the child's output.
C29_OpeningBeforeSpawn ==
    \A i \in 1..Len(spawned) :
        LET c == spawned[i]
            n == c.startedAt
            label == run[c.run].commands[c.index].label
        IN  /\ n >= 4
            /\ n <= Len(published)
            /\ published[n - 3].type = "phase"
            /\ published[n - 3].message = <<label>>
            /\ published[n - 2].type = "status"
            /\ published[n - 2].message = <<"Running", label>>
            /\ published[n].type = "progress"
            /\ published[n].message.status = "running"
            /\ PercentEq(published[n].message.percent,
                         <<CompletedBefore(i) * 100, run[c.run].total>>)
            /\ \A j \in 1..Len(c.logs) : c.logs[j] > n

\* the second step of a run of two has been opened at 50 percent and its
\* child has written a line
C29_Witness ==
    /\ Len(spawned) = 2
    /\ run[1].total = 2
    /\ spawned[2].logs # <<>>
    /\ PercentEq(published[spawned[2].startedAt].message.percent, <<50, 1>>)
    /\ published[spawned[2].startedAt - 3].message = <<"Deploy NKP">>

\* the events published from the start of child i to the end of its output
OutputEvents(i) ==
    SubSeq(published, spawned[i].startedAt + 1,
           IF spawned[i].exit = Alive THEN Len(published) ELSE spawned[i].exitAt)

\* the messages of the log events of evs, in order
LogMessages(evs) ==
    LET logs == SelectSeq(evs, LAMBDA e : e.type = "log")
    IN  [j \in 1..Len(logs) |-> logs[j].message]

\* C30: every output line of a step's child is published as one log event,
\* in arrival order and before the exit code is examined, and whenever
\* detect_phase returns a label for a line a phase event with that label
\* follows the line's log event at once, before the log event of the next
\* line; no other phase event is published while the output is read.
C30_LinesInOrder ==
    \A i \in 1..Len(spawned) :
        LET c == spawned[i]
            evs == OutputEvents(i)
            mode == run[c.run].mode
        IN  /\ LogMessages(evs) = [j \in 1..Len(c.lines) |-> RStrip(c.lines[j], Whitespace)]
            /\ \A j \in 1..Len(c.logs) :
                  published[c.logs[j]] = evs[c.logs[j] - c.startedAt]
            /\ \A p \in 1..Len(evs) :
                  /\ evs[p].type \in {"log", "phase"}
                  /\ (evs[p].type = "log" /\ detect_phase(evs[p].message, mode) # "")
                     => /\ p < Len(evs)
                        /\ evs[p + 1].type = "phase"
                        /\ evs[p + 1].message = <<detect_phase(evs[p].message, mode)>>
                  /\ evs[p].type = "phase"
                     => /\ p > 1
                        /\ evs[p - 1].type = "log"
                        /\ evs[p].message = <<detect_phase(evs[p - 1].message, mode)>>

\* a child has exited after a line that names a phase and a line after it
\* that ends in white space
C30_Witness ==
    \E i \in 1..Len(spawned) :
        /\ spawned[i].exit # Alive
        /\ Len(spawned[i].lines) >= 2
        /\ spawned[i].lines[1] = <<"Verify", "Deploy">>
        /\ spawned[i].lines[2] = <<"ok", " ">>
        /\ Len(OutputEvents(i)) > Len(spawned[i].lines)

\* the run thread has left run_deployment: it returned after the completion
\* or the failure events, or Popen raised and ended it
RunEnded(r) == run[r].pc = "done" \/ run[r].outcome = "raised"

\* C31: publishing never blocks the run routine: once its thread has
\* started, a run whose child processes end reaches its end whatever the
\* number of subscribers connected, none included, and however slowly they
\* take the events.
C31_PublishNeverBlocks ==
    (run[1].pc # "unstarted") ~> RunEnded(1)

\* a run has completed while nobody was connected: every event it
\* published is still queued
C31_Witness ==
    /\ run[1].outcome = "complete"
    /\ run[1].pc = "done"
    /\ \A s \in Subs : sub[s].pc = "idle"
    /\ Len(log_queue) = Len(published)
    /\ Len(published) > 4

\* C32: in every state a GET /api/status can observe, state["status"] is
\* running exactly when deployment_active is true: never running with the
\* flag false, never error or complete with the flag still true.
C32_SnapshotConsistent ==
    (state.status = "running") <=> deployment_active

\* the events with which a start request opened a run (line 849)
RunStarts(events) ==
    {n \in 1..Len(events) :
        /\ events[n].type = "progress"
        /\ events[n].message.step = <<"Queued deployment">>}

\* the place in the order of publication where the latest run started
LastRunStart(events) ==
    IF RunStarts(events) = {} THEN 0
    ELSE CHOOSE n \in RunStarts(events) : \A m \in RunStarts(events) : m <= n

\* C33: events do not leak across runs: once a later run has been started,
\* no event published during an earlier run is delivered to a subscriber,
\* even when the earlier run ended with events nobody had received.
C33_NoLeakAcrossRuns ==
    [][\A s \in Subs :
          sub'[s].count > sub[s].count
          => sub'[s].last >= LastRunStart(published)]_vars

\* no label of phases is a key of PHASE_COMMANDS
NoKnownLabel(phases) == \A k \in 1..Len(phases) : PHASE_COMMANDS(phases[k]) = ""

\* C34: a phased run whose resolved step list is empty (phases is empty, or
\* none of its labels is in the catalog) spawns no child process, takes 1
\* as its step total, and ends with status complete, progress 100 and
\* deployment_active false.
C34_EmptyStepList ==
    \A r \in Handlers :
        (/\ run[r].mode = "phased"
         /\ run[r].pc \notin {"unstarted", "ready"}
         /\ NoKnownLabel(run[r].phases))
        => /\ SpawnCount(r) = 0
           /\ run[r].commands = <<>>
           /\ run[r].total = 1
           /\ run[r].pc \in {"loop", "finish_release", "done"}
           /\ run[r].pc = "done"
              => /\ run[r].outcome = "complete"
                 /\ state.status = "complete"
                 /\ PercentEq(state.progress, <<100, 1>>)
                 /\ ~deployment_active

\* a phased run that asked for one unknown label has returned
C34_Witness ==
    /\ run[1].mode = "phased"
    /\ run[1].phases = <<"Bogus">>
    /\ run[1].pc = "done"
    /\ state.status = "complete"
    /\ spawned = <<>>

\* C35: POST /api/run obeys the gate of /api/start: called while a
\* deployment is active it answers with the conflict response, starts no
\* run thread and leaves the configuration files as they are.
C35_LegacyGate ==
    [][\A h \in Handlers :
          (/\ deployment_active
           /\ handler[h].pc = "idle"
           /\ handler'[h].response \in {"already running", "success"})
          => /\ handler'[h].response = "already running"
             /\ run' = run
             /\ files' = files]_vars

====
